---- MODULE Spec2Model ----
(***************************************************************************)
(* JSON path extraction (JsonRef::extract, extract_json and                *)
(* append_if_ref_unique of codec/mysql/json/json_extract.rs) as a state    *)
(* machine: a call of extract on a document and a list of path             *)
(* expressions, and the value it returns.                                  *)
(*                                                                         *)
(* A document is a tree of nodes [type, keys, elems].  A JsonRef is the    *)
(* place of a node in the document: the sequence of 0-based slot numbers   *)
(* that leads to it from the root, so two references are ref_eq exactly    *)
(* when they denote the same storage location, whatever the values are.    *)
(***************************************************************************)
EXTENDS Integers, Sequences, FiniteSets, TLC

\* ------------------------------------------------------------- bounds
\* Largest number of nodes of a document.
MaxNodes == 4
\* Largest number of legs of the expression when one expression is supplied.
MaxLegs == 3
\* Largest number of legs of each expression when several are supplied.
MaxLegsMulti == 1
\* Largest number of path expressions of one call.
MaxExprs == 2
\* Largest literal array index of an Index leg.
MaxIndex == 1

\* -------------------------------------------------- path expressions
\* path_expr.rs: the "every index" sentinel of PathLeg::Index.
PATH_EXPR_ARRAY_INDEX_ASTERISK == -1
\* path_expr.rs: the "every key" sentinel of PathLeg::Key.
PATH_EXPR_ASTERISK == "*"
\* path_expr.rs: the bits of PathExpressionFlag.
PATH_EXPRESSION_CONTAINS_ASTERISK == 1
PATH_EXPRESSION_CONTAINS_DOUBLE_ASTERISK == 2

\* The keys documents are built from, in the order objects store them.
KeyUniverse == <<"a", "b">>

\* PathLeg, one shape for the three variants.
Index(i) == [kind |-> "Index", i |-> i, key |-> ""]
Key(k) == [kind |-> "Key", i |-> 0, key |-> k]
DoubleAsterisk == [kind |-> "DoubleAsterisk", i |-> 0, key |-> ""]

PathLegs ==
    {Index(i) : i \in PATH_EXPR_ARRAY_INDEX_ASTERISK .. MaxIndex}
        \cup {Key(KeyUniverse[n]) : n \in 1 .. Len(KeyUniverse)}
        \cup {Key(PATH_EXPR_ASTERISK), DoubleAsterisk}

\* The flags the path parser stores with the legs: one bit when a leg is a
\* single-level wildcard, one when a leg is the recursive descent.
FlagsOf(legs) ==
    (IF \E n \in 1 .. Len(legs) :
            \/ legs[n].kind = "Index" /\ legs[n].i = PATH_EXPR_ARRAY_INDEX_ASTERISK
            \/ legs[n].kind = "Key" /\ legs[n].key = PATH_EXPR_ASTERISK
        THEN PATH_EXPRESSION_CONTAINS_ASTERISK ELSE 0)
    + (IF \E n \in 1 .. Len(legs) : legs[n].kind = "DoubleAsterisk"
        THEN PATH_EXPRESSION_CONTAINS_DOUBLE_ASTERISK ELSE 0)

\* PathExpression { legs, flags }.
PathExpression(legs) == [legs |-> legs, flags |-> FlagsOf(legs)]

\* PathExpression::contains_any_asterisk: flags & (ASTERISK | DOUBLE_ASTERISK) != 0.
contains_any_asterisk(path_expr) ==
    path_expr.flags
        % (PATH_EXPRESSION_CONTAINS_ASTERISK + PATH_EXPRESSION_CONTAINS_DOUBLE_ASTERISK + 1)
        # 0

LegSeqs(maxLen) == UNION {[1 .. n -> PathLegs] : n \in 0 .. maxLen}

\* The lists of path expressions a call is given.
ExprLists ==
    UNION {[1 .. n -> {PathExpression(l) :
                          l \in LegSeqs(IF n > 1 THEN MaxLegsMulti ELSE MaxLegs)}]
           : n \in 0 .. MaxExprs}

\* --------------------------------------------------------- documents
ScalarTypes == {"Literal"}

Scalar(t) == [type |-> t, keys |-> <<>>, elems |-> <<>>]
Array(elems) == [type |-> "Array", keys |-> <<>>, elems |-> elems]
Object(keys, vals) == [type |-> "Object", keys |-> keys, elems |-> vals]

\* The key lists of an object with m entries: unique keys, in stored order.
KeyLists(m) ==
    {[n \in 1 .. m |-> KeyUniverse[f[n]]] :
        f \in {g \in [1 .. m -> 1 .. Len(KeyUniverse)] :
                  \A p, q \in 1 .. m : p < q => g[p] < g[q]}}

RECURSIVE Trees(_), Forests(_)
\* The sequences of documents of n nodes in all.
Forests(n) ==
    IF n = 0 THEN {<<>>}
    ELSE UNION {{<<t>> \o f : t \in Trees(s), f \in Forests(n - s)} : s \in 1 .. n}
\* The documents of exactly n nodes.
Trees(n) ==
    (IF n = 1 THEN {Scalar(t) : t \in ScalarTypes} ELSE {})
        \cup {Array(f) : f \in Forests(n - 1)}
        \cup UNION {{Object(ks, f) : ks \in KeyLists(Len(f))} : f \in Forests(n - 1)}

Documents == UNION {Trees(n) : n \in 1 .. MaxNodes}

VARIABLES
    doc,             \* the document extract is called on (self)
    corrupt,         \* the places whose encoding cannot be decoded
    path_expr_list,  \* the argument of extract
    pc,              \* "call" before the call, "done" after it returned
    elem_list,       \* extract's elem_list when its loop has ended
    result           \* what extract returned

\* The state of a KvEngineFactory, of the tablet directories and of the
\* engines its callers hold.
VARIABLES
    inner,           \* FactoryInner: which optional parts the builder set
    fs,              \* the tablet paths that hold a database on disk
    engines,         \* the engines open_tablet returned that are not dropped
    opens,           \* per path, the open_tablet calls made so far
    flow_tablets,    \* the tablets the flow listener was told are created
    last_ret         \* what the latest factory call returned

json_vars == <<doc, corrupt, path_expr_list, pc, elem_list, result>>
factory_vars == <<inner, fs, engines, opens, flow_tablets, last_ret>>
vars == <<json_vars, factory_vars>>

\* ------------------------------------------- the document's read view
RECURSIVE NodeAt(_, _)
\* The node of document d at place j.
NodeAt(d, j) == IF j = <<>> THEN d ELSE NodeAt(d.elems[j[1] + 1], Tail(j))

RECURSIVE PlacesOf(_)
\* Every place of document d, the root's first.
PlacesOf(d) ==
    {<<>>} \cup UNION {{<<k - 1>> \o p : p \in PlacesOf(d.elems[k])} : k \in 1 .. Len(d.elems)}

Root == <<>>

Ok(v) == [ok |-> TRUE, v |-> v]
Err == [ok |-> FALSE, v |-> <<>>]

get_type(j) == NodeAt(doc, j).type
get_elem_count(j) == Len(NodeAt(doc, j).elems)
\* Result<JsonRef>: the k-th element of array j, or the decode error.
array_get_elem(j, k) == IF Append(j, k) \in corrupt THEN Err ELSE Ok(Append(j, k))
\* Result<JsonRef>: the value of slot i of object j, or the decode error.
object_get_val(j, i) == IF Append(j, i) \in corrupt THEN Err ELSE Ok(Append(j, i))
\* Option<usize>: the slot of key in object j, as the set of the slots found.
object_search_key(j, key) ==
    {idx \in 0 .. get_elem_count(j) - 1 : NodeAt(doc, j).keys[idx + 1] = key}
\* JsonRef::ref_eq: the same storage location.
ref_eq(a, b) == a = b
\* JsonRef::to_owned: a copy of the value at j.
to_owned(j) == NodeAt(doc, j)
\* Json::from_array: a new array of the values.
from_array(values) == Array(values)

\* `i as usize` of an i32: a negative i wraps to the top of usize, above every
\* element count (taken here to 2^31 + i, the largest integers TLC
\* has, where a 64-bit build gives 2^64 + i).
AsUsize(i) == IF i < 0 THEN 2147483647 + i + 1 ELSE i

\* Mutant: the append of std, with no look at unique_verifier.
append_if_ref_unique_NoCheck(list, other) == list \o other

\* ------------------------------------------------ append_if_ref_unique
\* elem_list followed by the elements of other that are ref_eq to none of
\* elem_list as it was on entry (unique_verifier is filled once, before the
\* loop over other).
append_if_ref_unique(list, other) ==
    list \o SelectSeq(other, LAMBDA e : ~\E n \in 1 .. Len(list) : ref_eq(list[n], e))

\* -------------------------------------------------------- extract_json
RECURSIVE extract_json(_, _), ForEachElem(_, _, _, _, _), ForEachVal(_, _, _, _, _)

\* Mutant: an element that cannot be decoded is passed over.
ForEachElem_SkipErr(j, k, elem_count, legs, ret) ==
    IF k >= elem_count THEN Ok(ret)
    ELSE LET elem == array_get_elem(j, k) IN
         IF ~elem.ok THEN ForEachElem(j, k + 1, elem_count, legs, ret)
         ELSE LET sub == extract_json(elem.v, legs) IN
              IF ~sub.ok THEN Err
              ELSE ForEachElem(j, k + 1, elem_count, legs, append_if_ref_unique(ret, sub.v))

\* for k in k..elem_count over the elements of array j: ret with the matches
\* of legs on each element appended; the first error ends the loop.
ForEachElem(j, k, elem_count, legs, ret) ==
    IF k >= elem_count THEN Ok(ret)
    ELSE LET elem == array_get_elem(j, k) IN
         IF ~elem.ok THEN Err
         ELSE LET sub == extract_json(elem.v, legs) IN
              IF ~sub.ok THEN Err
              ELSE ForEachElem(j, k + 1, elem_count, legs, append_if_ref_unique(ret, sub.v))

\* Mutant: the matches of each value are put before those already found.
ForEachVal_Prepend(j, i, elem_count, legs, ret) ==
    IF i >= elem_count THEN Ok(ret)
    ELSE LET val == object_get_val(j, i) IN
         IF ~val.ok THEN Err
         ELSE LET sub == extract_json(val.v, legs) IN
              IF ~sub.ok THEN Err
              ELSE ForEachVal(j, i + 1, elem_count, legs, append_if_ref_unique(sub.v, ret))

\* for i in i..elem_count over the values of object j.
ForEachVal(j, i, elem_count, legs, ret) ==
    IF i >= elem_count THEN Ok(ret)
    ELSE LET val == object_get_val(j, i) IN
         IF ~val.ok THEN Err
         ELSE LET sub == extract_json(val.v, legs) IN
              IF ~sub.ok THEN Err
              ELSE ForEachVal(j, i + 1, elem_count, legs, append_if_ref_unique(ret, sub.v))

\* Mutant: an empty leg list matches nothing.
NoLegs_Nothing(j) == Ok(<<>>)

\* path_legs.is_empty(): j itself, once.
NoLegs(j) == Ok(<<j>>)

\* Mutant: element i is read without the test against elem_count, and the
\* read of an element that is not there fails.
IndexLegArray_NoRangeCheck(j, i, sub_path_legs) ==
    LET elem_count == get_elem_count(j) IN
    IF i = PATH_EXPR_ARRAY_INDEX_ASTERISK
    THEN ForEachElem(j, 0, elem_count, sub_path_legs, <<>>)
    ELSE LET elem == IF AsUsize(i) < elem_count THEN array_get_elem(j, AsUsize(i)) ELSE Err IN
         IF ~elem.ok THEN Err
         ELSE LET sub == extract_json(elem.v, sub_path_legs) IN
              IF ~sub.ok THEN Err ELSE Ok(append_if_ref_unique(<<>>, sub.v))

\* PathLeg::Index(i) on an array: every element, element i, or nothing.
IndexLegArray(j, i, sub_path_legs) ==
    LET elem_count == get_elem_count(j) IN
    IF i = PATH_EXPR_ARRAY_INDEX_ASTERISK
    THEN ForEachElem(j, 0, elem_count, sub_path_legs, <<>>)
    ELSE IF AsUsize(i) < elem_count
    THEN LET elem == array_get_elem(j, AsUsize(i)) IN
         IF ~elem.ok THEN Err
         ELSE LET sub == extract_json(elem.v, sub_path_legs) IN
              IF ~sub.ok THEN Err ELSE Ok(append_if_ref_unique(<<>>, sub.v))
    ELSE Ok(<<>>)

\* Mutant: no implicit single-element array.
IndexLegOther_NoAutoWrap(j, i, sub_path_legs) == Ok(<<>>)

\* PathLeg::Index(i) on anything else: j is its own element 0.
IndexLegOther(j, i, sub_path_legs) ==
    IF AsUsize(i) = 0
    THEN LET sub == extract_json(j, sub_path_legs) IN
         IF ~sub.ok THEN Err ELSE Ok(append_if_ref_unique(<<>>, sub.v))
    ELSE Ok(<<>>)

\* The arm PathLeg::Index(i).
IndexLeg(j, i, sub_path_legs) ==
    IF get_type(j) = "Array"
    THEN IndexLegArray(j, i, sub_path_legs)
    ELSE IndexLegOther(j, i, sub_path_legs)

\* PathLeg::Key(key) on an object: every value, the value of key, or nothing.
KeyLegObject(j, key, sub_path_legs) ==
    IF key = PATH_EXPR_ASTERISK
    THEN ForEachVal(j, 0, get_elem_count(j), sub_path_legs, <<>>)
    ELSE LET found == object_search_key(j, key) IN
         IF found # {}
         THEN LET val == object_get_val(j, CHOOSE idx \in found : TRUE) IN
              IF ~val.ok THEN Err
              ELSE LET sub == extract_json(val.v, sub_path_legs) IN
                   IF ~sub.ok THEN Err ELSE Ok(append_if_ref_unique(<<>>, sub.v))
         ELSE Ok(<<>>)

\* Mutant: the every-key wildcard also walks the elements of an array.
KeyLeg_AnyContainer(j, key, sub_path_legs) ==
    IF get_type(j) = "Object" THEN KeyLegObject(j, key, sub_path_legs)
    ELSE IF get_type(j) = "Array" /\ key = PATH_EXPR_ASTERISK
    THEN ForEachVal(j, 0, get_elem_count(j), sub_path_legs, <<>>)
    ELSE Ok(<<>>)

\* The arm PathLeg::Key(key).
KeyLeg(j, key, sub_path_legs) ==
    IF get_type(j) = "Object" THEN KeyLegObject(j, key, sub_path_legs) ELSE Ok(<<>>)

\* Mutant: the descent applies only the legs after ** to each child.
DoubleAsteriskLeg_SuffixOnly(j, path_legs, sub_path_legs) ==
    LET here == extract_json(j, sub_path_legs) IN
    IF ~here.ok THEN Err
    ELSE LET ret == append_if_ref_unique(<<>>, here.v) IN
         IF get_type(j) = "Array"
         THEN ForEachElem(j, 0, get_elem_count(j), sub_path_legs, ret)
         ELSE IF get_type(j) = "Object"
         THEN ForEachVal(j, 0, get_elem_count(j), sub_path_legs, ret)
         ELSE Ok(ret)

\* The arm PathLeg::DoubleAsterisk: sub_path_legs on j itself, then the whole
\* of path_legs on every child.
DoubleAsteriskLeg(j, path_legs, sub_path_legs) ==
    LET here == extract_json(j, sub_path_legs) IN
    IF ~here.ok THEN Err
    ELSE LET ret == append_if_ref_unique(<<>>, here.v) IN
         IF get_type(j) = "Array"
         THEN ForEachElem(j, 0, get_elem_count(j), path_legs, ret)
         ELSE IF get_type(j) = "Object"
         THEN ForEachVal(j, 0, get_elem_count(j), path_legs, ret)
         ELSE Ok(ret)

\* Result<Vec<JsonRef>>: the places of the document that path_legs matches
\* from j.
extract_json(j, path_legs) ==
    IF path_legs = <<>> THEN NoLegs(j)
    ELSE LET current_leg == Head(path_legs)
             sub_path_legs == Tail(path_legs)
         IN  CASE current_leg.kind = "Index" -> IndexLeg(j, current_leg.i, sub_path_legs)
               [] current_leg.kind = "Key" -> KeyLeg(j, current_leg.key, sub_path_legs)
               [] OTHER -> DoubleAsteriskLeg(j, path_legs, sub_path_legs)

\* ------------------------------------------------------------- extract
\* Mutant: the flags of the expressions are never or-ed in.
CouldReturnMultipleMatches_LenOnly(list) == Len(list) > 1

\* could_return_multiple_matches when the loop has ended.
CouldReturnMultipleMatches(list) ==
    Len(list) > 1 \/ \E n \in 1 .. Len(list) : contains_any_asterisk(list[n])

RECURSIVE CollectElems(_, _, _)

\* Mutant: the expressions' matches are merged as the matches of one are.
CollectElems_Unique(list, n, elems) ==
    IF n > Len(list) THEN Ok(elems)
    ELSE LET sub == extract_json(Root, list[n].legs) IN
         IF ~sub.ok THEN Err
         ELSE CollectElems(list, n + 1, append_if_ref_unique(elems, sub.v))

\* The loop over path_expr_list from its n-th expression on: elems with each
\* expression's matches appended, or the first error.
CollectElems(list, n, elems) ==
    IF n > Len(list) THEN Ok(elems)
    ELSE LET sub == extract_json(Root, list[n].legs) IN
         IF ~sub.ok THEN Err ELSE CollectElems(list, n + 1, elems \o sub.v)

None == [kind |-> "None", json |-> Scalar("Literal")]
Some(json) == [kind |-> "Some", json |-> json]
DecodeError == [kind |-> "Err", json |-> Scalar("Literal")]
NotReturned == [kind |-> "NotReturned", json |-> Scalar("Literal")]

\* Mutant: every non-empty elem_list is wrapped.
ResultOf_AlwaysWrap(elems, could_return_multiple_matches) ==
    IF elems = <<>> THEN None
    ELSE Some(from_array([n \in 1 .. Len(elems) |-> to_owned(elems[n])]))

\* Mutant: no test for an empty elem_list before the wrap.
ResultOf_EmptyArray(elems, could_return_multiple_matches) ==
    IF could_return_multiple_matches \/ elems = <<>>
    THEN Some(from_array([n \in 1 .. Len(elems) |-> to_owned(elems[n])]))
    ELSE Some(to_owned(elems[1]))

\* What extract returns for the elem_list its loop has built.
ResultOf(elems, could_return_multiple_matches) ==
    IF elems = <<>> THEN None
    ELSE IF could_return_multiple_matches
    THEN Some(from_array([n \in 1 .. Len(elems) |-> to_owned(elems[n])]))
    ELSE Some(to_owned(elems[1]))

\* JsonRef::extract on the document.
extract(list) ==
    LET collected == CollectElems(list, 1, <<>>) IN
    IF ~collected.ok THEN DecodeError
    ELSE ResultOf(collected.v, CouldReturnMultipleMatches(list))

\* ------------------------------------------------- engine_factory.rs
MaxOpens == 2
\* The tablet paths the factory is called with.
Paths == {"t1", "t2"}
\* TabletContext: suffix and flush_state are Options, kept as the set of
\* what they hold.
TabletContexts == [id : {1}, suffix : {{}, {3}}, flush_state : {{}, {"state"}}]
\* FactoryInner as KvEngineFactoryBuilder::build leaves it: flow_listener
\* and state_storage are set or not.
FactoryInners == [flow_listener : BOOLEAN, state_storage : BOOLEAN]

NoCall == [op |-> "none", path |-> "", ok |-> FALSE]
Returned(op, path, ok) == [op |-> op, path |-> path, ok |-> ok]

\* RocksEngine::exists: a database is on disk at path.
RocksEngine_exists(path) == path \in fs
\* The lock of the database directory: held from the opening of an engine
\* on path until that engine is dropped.
Locked(path) == \E e \in engines : e.path = path
\* engine_rocks::util::new_engine_opt: fails on a locked directory or on an
\* I/O failure (io_ok false), else creates the database if it is missing
\* and opens it with the listeners of db_opts.
new_engine_opt(path, listeners, io_ok) ==
    IF Locked(path) \/ ~io_ok
    THEN [ok |-> FALSE, fs |-> fs, engines |-> engines]
    ELSE [ok |-> TRUE,
          fs |-> fs \cup {path},
          engines |-> engines \cup
              {[path |-> path, serial |-> opens[path] + 1, listeners |-> listeners]}]
\* std::fs::remove_dir_all: the directory is gone if the removal succeeds
\* (removed), and stays if it fails.
remove_dir_all(path, removed) == IF removed THEN fs \ {path} ELSE fs
\* FlowListener::on_created and on_destroyed for tablet (id, suffix).
on_created(id, suffix) == flow_tablets \cup {<<id, suffix>>}
on_destroyed(id, suffix) == flow_tablets \ {<<id, suffix>>}

\* Mutant: a path whose engine is held is opened once more.
open_tablet_Reopen(ctx, path, io_ok) ==
    [ret |-> Returned("open_tablet", path, io_ok),
     fs |-> IF io_ok THEN fs \cup {path} ELSE fs,
     engines |-> IF io_ok
                 THEN engines \cup
                     {[path |-> path, serial |-> opens[path] + 1, listeners |-> {}]}
                 ELSE engines,
     flow_tablets |-> flow_tablets]

\* KvEngineFactory::open_tablet: what it returns and the state it leaves.
open_tablet(ctx, path, io_ok) ==
    LET flow == inner.flow_listener /\ ctx.suffix # {}
        listeners ==
            (IF flow THEN {"flow"} ELSE {})
                \cup (IF inner.state_storage /\ ctx.flush_state # {}
                      THEN {"persistence"} ELSE {})
        kv_engine == new_engine_opt(path, listeners, io_ok)
    IN  [ret |-> Returned("open_tablet", path, kv_engine.ok),
         fs |-> kv_engine.fs,
         engines |-> kv_engine.engines,
         flow_tablets |->
             IF kv_engine.ok /\ flow
             THEN on_created(ctx.id, CHOOSE x \in ctx.suffix : TRUE)
             ELSE flow_tablets]

\* KvEngineFactory::destroy_tablet: the result of remove_dir_all is dropped
\* and the call returns Ok(()).
destroy_tablet(ctx, path, removed) ==
    [ret |-> Returned("destroy_tablet", path, TRUE),
     fs |-> remove_dir_all(path, removed),
     flow_tablets |->
         IF inner.flow_listener /\ ctx.suffix # {}
         THEN on_destroyed(ctx.id, CHOOSE x \in ctx.suffix : TRUE)
         ELSE flow_tablets]

\* KvEngineFactory::exists.
exists(path) == RocksEngine_exists(path)

\* ------------------------------------------------------- state machine
\* No factory: the state of the second component while extract is checked.
NoFactory ==
    /\ inner = [flow_listener |-> FALSE, state_storage |-> FALSE]
    /\ fs = {}
    /\ engines = {}
    /\ opens = [p \in Paths |-> 0]
    /\ flow_tablets = {}
    /\ last_ret = NoCall

Init ==
    /\ NoFactory
    /\ doc \in Documents
    /\ corrupt = {}
    /\ path_expr_list \in ExprLists
    /\ pc = "call"
    /\ elem_list = <<>>
    /\ result = NotReturned

\* One call of extract, from its entry to its return.
Extract ==
    /\ pc = "call"
    /\ pc' = "done"
    /\ elem_list' = CollectElems(path_expr_list, 1, <<>>).v
    /\ result' = extract(path_expr_list)
    /\ UNCHANGED <<doc, corrupt, path_expr_list>>
    /\ UNCHANGED factory_vars

Next == Extract

Spec == Init /\ [][Next]_vars

\* A call on a document of which at most one place below the root cannot be
\* decoded.
InitDecode ==
    /\ NoFactory
    /\ doc \in Documents
    /\ corrupt \in {{}} \cup {{p} : p \in PlacesOf(doc) \ {Root}}
    /\ path_expr_list \in ExprLists
    /\ pc = "call"
    /\ elem_list = <<>>
    /\ result = NotReturned

SpecDecode == InitDecode /\ [][Next]_vars

\* A factory as KvEngineFactoryBuilder::build returns it, over a data
\* directory in which no tablet has been opened yet; no extract call runs.
InitFactory ==
    /\ inner \in FactoryInners
    /\ fs = {}
    /\ engines = {}
    /\ opens = [p \in Paths |-> 0]
    /\ flow_tablets = {}
    /\ last_ret = NoCall
    /\ doc = Scalar("Literal")
    /\ corrupt = {}
    /\ path_expr_list = <<>>
    /\ pc = "idle"
    /\ elem_list = <<>>
    /\ result = NotReturned

\* One call of open_tablet; the caller keeps the engine it returns. A
\* context with a flush_state and no suffix panics at ctx.suffix.unwrap()
\* when the factory has a state_storage, before anything is opened.
OpenTablet ==
    \E ctx \in TabletContexts, path \in Paths, io_ok \in BOOLEAN :
        /\ opens[path] < MaxOpens
        /\ ~(inner.state_storage /\ ctx.flush_state # {} /\ ctx.suffix = {})
        /\ LET call == open_tablet(ctx, path, io_ok) IN
               /\ last_ret' = call.ret
               /\ fs' = call.fs
               /\ engines' = call.engines
               /\ flow_tablets' = call.flow_tablets
        /\ opens' = [opens EXCEPT ![path] = @ + 1]
        /\ UNCHANGED <<inner, json_vars>>

\* One call of destroy_tablet.
DestroyTablet ==
    \E ctx \in TabletContexts, path \in Paths, removed \in BOOLEAN :
        /\ LET call == destroy_tablet(ctx, path, removed) IN
               /\ last_ret' = call.ret
               /\ fs' = call.fs
               /\ flow_tablets' = call.flow_tablets
        /\ UNCHANGED <<inner, engines, opens, json_vars>>

\* The caller drops an engine it holds: drop(engine).
DropEngine ==
    \E e \in engines :
        /\ engines' = engines \ {e}
        /\ UNCHANGED <<inner, fs, opens, flow_tablets, last_ret, json_vars>>

NextFactory == OpenTablet \/ DestroyTablet \/ DropEngine

SpecFactory == InitFactory /\ [][NextFactory]_vars

\* ============================================================== claims
Called == pc = "done"
Places == PlacesOf(doc)
ExprCount == Len(path_expr_list)
LegsOf(n) == path_expr_list[n].legs
\* The leg lists of the call's expressions.
CallLegs == {LegsOf(n) : n \in 1 .. ExprCount}
\* The match set of the n-th expression on the document.
Matches(n) == extract_json(Root, LegsOf(n)).v

RECURSIVE MatchesUpTo(_)
\* The match sets of the first n expressions, one after the other.
MatchesUpTo(n) == IF n = 0 THEN <<>> ELSE MatchesUpTo(n - 1) \o Matches(n)

ValuesAt(refs) == [n \in 1 .. Len(refs) |-> NodeAt(doc, refs[n])]
NoDuplicates(refs) == \A p, q \in 1 .. Len(refs) : refs[p] = refs[q] => p = q

IsWildcardLeg(leg) ==
    \/ leg.kind = "Index" /\ leg.i = PATH_EXPR_ARRAY_INDEX_ASTERISK
    \/ leg.kind = "Key" /\ leg.key = PATH_EXPR_ASTERISK
    \/ leg.kind = "DoubleAsterisk"
HasWildcardLeg(legs) == \E m \in 1 .. Len(legs) : IsWildcardLeg(legs[m])

\* C1: when more than one expression is supplied, or a supplied expression
\* has a single-level or recursive-descent wildcard leg, a result that is not
\* "no match" is the JSON array of all the matches, in order, also when there
\* is one match only.
C1_WildcardAutoWrap ==
    (/\ Called
     /\ result.kind = "Some"
     /\ (ExprCount > 1 \/ \E n \in 1 .. ExprCount : HasWildcardLeg(LegsOf(n))))
        => result.json = Array(ValuesAt(MatchesUpTo(ExprCount)))

\* C1's case: one expression with a wildcard, one match, returned in an array.
C1_Witness ==
    /\ Called
    /\ ExprCount = 1
    /\ HasWildcardLeg(LegsOf(1))
    /\ Len(Matches(1)) = 1
    /\ result = Some(Array(<<NodeAt(doc, Matches(1)[1])>>))

\* C2: when elem_list is not empty and could_return_multiple_matches is false,
\* elem_list holds exactly one match and the result is that match's value
\* itself, not an array around it.
C2_SingleMatchBare ==
    (Called /\ elem_list # <<>> /\ ~CouldReturnMultipleMatches(path_expr_list))
        => /\ Len(elem_list) = 1
           /\ Len(Matches(1)) = 1
           /\ result = Some(NodeAt(doc, elem_list[1]))

\* C2's case: one expression of literal legs that matches an array below the
\* root, which is returned as it is.
C2_Witness ==
    /\ Called
    /\ ExprCount = 1
    /\ LegsOf(1) # <<>>
    /\ ~HasWildcardLeg(LegsOf(1))
    /\ elem_list # <<>>
    /\ elem_list[1] # Root
    /\ result = Some(NodeAt(doc, elem_list[1]))
    /\ result.json.type = "Array"

\* C3: no match set extract_json returns, from any node of the document and
\* for any leg list, holds the same place twice.
C3_MatchSetUnique ==
    Called => \A legs \in CallLegs : \A j \in Places :
                  NoDuplicates(extract_json(j, legs).v)

\* C3's case: [DoubleAsterisk, Index(0)] reaches a place both from the root
\* and again from a child of the root, and the match set holds it once.
C3_Witness ==
    /\ Called
    /\ ExprCount = 1
    /\ LegsOf(1) = <<DoubleAsterisk, Index(0)>>
    /\ \E k \in 0 .. get_elem_count(Root) - 1 : \E p \in 1 .. Len(elem_list) :
          /\ \E q \in 1 .. Len(extract_json(Root, <<Index(0)>>).v) :
                 extract_json(Root, <<Index(0)>>).v[q] = elem_list[p]
          /\ \E q \in 1 .. Len(extract_json(<<k>>, LegsOf(1)).v) :
                 extract_json(<<k>>, LegsOf(1)).v[q] = elem_list[p]
    /\ NoDuplicates(elem_list)

\* The indexes tried on a node: the wildcard and the literal ones, one past
\* the inputs' largest.
IndexesTried == PATH_EXPR_ARRAY_INDEX_ASTERISK .. MaxIndex + 1

RECURSIVE ElemMatches(_, _, _)
\* The matches of legs on the first n children of j, child after child.
ElemMatches(j, n, legs) ==
    IF n = 0 THEN <<>>
    ELSE ElemMatches(j, n - 1, legs) \o extract_json(Append(j, n - 1), legs).v

\* C4: on a node that is not an array, Index(0) before any leg list rest
\* matches what rest matches on the node itself, once or stacked, and every
\* other index, the wildcard too, matches nothing; on an array, Index(i)
\* matches what rest matches on element i, nothing when there is no element
\* i, and the wildcard what rest matches on every element in turn.
C4_IndexAutoWrap ==
    Called => \A rest \in CallLegs : \A j \in Places :
        IF get_type(j) # "Array"
        THEN /\ extract_json(j, <<Index(0)>> \o rest) = extract_json(j, rest)
             /\ extract_json(j, <<Index(0), Index(0)>> \o rest) = extract_json(j, rest)
             /\ \A i \in IndexesTried \ {0} :
                    extract_json(j, <<Index(i)>> \o rest) = Ok(<<>>)
        ELSE /\ \A i \in IndexesTried \ {PATH_EXPR_ARRAY_INDEX_ASTERISK} :
                    extract_json(j, <<Index(i)>> \o rest)
                        = IF i < get_elem_count(j)
                          THEN extract_json(Append(j, i), rest)
                          ELSE Ok(<<>>)
             /\ extract_json(j, <<Index(PATH_EXPR_ARRAY_INDEX_ASTERISK)>> \o rest)
                    = Ok(ElemMatches(j, get_elem_count(j), rest))

\* C4's case: stacked Index(0) legs on an object, then a key of it.
C4_Witness ==
    /\ Called
    /\ get_type(Root) = "Object"
    /\ ExprCount = 1
    /\ Len(LegsOf(1)) = 3
    /\ LegsOf(1)[1] = Index(0)
    /\ LegsOf(1)[2] = Index(0)
    /\ LegsOf(1)[3].kind = "Key"
    /\ elem_list = <<<<0>>>>
    /\ result = Some(NodeAt(doc, <<0>>))

\* The keys tried on a node: the documents' keys, the wildcard and a key no
\* document has.
KeysTried == {KeyUniverse[n] : n \in 1 .. Len(KeyUniverse)} \cup {PATH_EXPR_ASTERISK, "zz"}

\* C5: on a node that is not an object, a Key leg, literal or wildcard,
\* matches nothing whatever legs follow.
C5_KeyOnlyOnObjects ==
    Called => \A rest \in CallLegs : \A j \in Places :
        get_type(j) # "Object"
            => \A key \in KeysTried : extract_json(j, <<Key(key)>> \o rest) = Ok(<<>>)

\* C5's case: the every-key wildcard on an array that has elements.
C5_Witness ==
    /\ Called
    /\ get_type(Root) = "Array"
    /\ get_elem_count(Root) > 0
    /\ ExprCount = 1
    /\ LegsOf(1) = <<Key(PATH_EXPR_ASTERISK)>>
    /\ elem_list = <<>>
    /\ result = None

RangeOf(refs) == {refs[p] : p \in 1 .. Len(refs)}
PosIn(refs, x) == CHOOSE p \in 1 .. Len(refs) : refs[p] = x
\* x lies under an earlier slot than y of the container where their ways from
\* the root part.
UnderEarlierSlot(x, y) ==
    \E c \in 1 .. Len(x) :
        /\ c <= Len(y)
        /\ SubSeq(x, 1, c - 1) = SubSeq(y, 1, c - 1)
        /\ x[c] < y[c]
SlotOrdered(refs) ==
    \A p, q \in 1 .. Len(refs) : UnderEarlierSlot(refs[p], refs[q]) => p < q
HasDoubleAsterisk(legs) == \E m \in 1 .. Len(legs) : legs[m].kind = "DoubleAsterisk"
\* elem_list is made of the match sets of the expressions, each in its own
\* order, in the order the expressions are supplied.
ExpressionOrdered ==
    /\ Len(elem_list) = Len(MatchesUpTo(ExprCount))
    /\ \A n \in 1 .. ExprCount : \A p \in 1 .. Len(Matches(n)) :
           elem_list[Len(MatchesUpTo(n - 1)) + p] = Matches(n)[p]

\* C6 as claimed: the matches of an earlier expression precede those of a
\* later one, and within one expression a match under an earlier array
\* element or object slot precedes a match under a later one.
C6_OrderAsClaimed ==
    Called => /\ ExpressionOrdered
              /\ \A n \in 1 .. ExprCount : SlotOrdered(Matches(n))

\* C6 (amended): the matches of an earlier expression precede those of a
\* later one; within an expression that has no recursive-descent leg a match
\* under an earlier element or slot precedes a match under a later one; and a
\* recursive-descent leg on a node lists first what the remaining legs match
\* on the node itself, then what it finds from each child, child after child,
\* leaving out what is already listed.
C6_OrderPreserved ==
    Called =>
        /\ ExpressionOrdered
        /\ \A n \in 1 .. ExprCount :
               ~HasDoubleAsterisk(LegsOf(n)) => SlotOrdered(Matches(n))
        /\ \A rest \in CallLegs : \A j \in Places :
               LET legs == <<DoubleAsterisk>> \o rest
                   all == extract_json(j, legs).v
                   here == extract_json(j, rest).v
                   from(k) == RangeOf(extract_json(Append(j, k), legs).v)
               IN  /\ SubSeq(all, 1, Len(here)) = here
                   /\ \A k1, k2 \in 0 .. get_elem_count(j) - 1 :
                          k1 < k2 => \A x \in from(k1) : \A y \in from(k2) \ RangeOf(here) :
                                         PosIn(all, x) < PosIn(all, y)

\* C6's case: a recursive descent whose match under the later slot of the
\* root precedes its match under the earlier slot.
C6_Witness ==
    /\ Called
    /\ ExprCount = 1
    /\ Len(LegsOf(1)) = 2
    /\ LegsOf(1)[1] = DoubleAsterisk
    /\ Len(elem_list) = 2
    /\ UnderEarlierSlot(elem_list[2], elem_list[1])

CountIn(refs, x) == Cardinality({p \in 1 .. Len(refs) : refs[p] = x})

\* C7: a place is in elem_list once for every expression that matches it:
\* nothing is suppressed between expressions, and an expression supplied
\* twice gives its matches twice.
C7_NoDedupAcrossExpressions ==
    Called =>
        /\ \A x \in Places :
               CountIn(elem_list, x)
                   = Cardinality({n \in 1 .. ExprCount : x \in RangeOf(Matches(n))})
        /\ (ExprCount = 2 /\ path_expr_list[1] = path_expr_list[2])
               => elem_list = Matches(1) \o Matches(1)

\* C7's case: the same expression twice, with a match.
C7_Witness ==
    /\ Called
    /\ ExprCount = 2
    /\ path_expr_list[1] = path_expr_list[2]
    /\ LegsOf(1) # <<>>
    /\ Matches(1) # <<>>
    /\ CountIn(elem_list, Matches(1)[1]) = 2
    /\ result = Some(Array(ValuesAt(Matches(1) \o Matches(1))))

\* C8: with no path expression the result is "no match", whatever the
\* document.
C8_NoExpressionNoMatch ==
    (Called /\ path_expr_list = <<>>) => result = None /\ elem_list = <<>>

\* C8's case: a call with no expression on a document that has children.
C8_Witness ==
    /\ Called
    /\ path_expr_list = <<>>
    /\ get_elem_count(Root) > 0
    /\ result = None

\* C9: one expression with no legs matches the document once and the result
\* is the document itself, not an array around it.
C9_NoLegsWholeDocument ==
    (Called /\ ExprCount = 1 /\ LegsOf(1) = <<>>)
        => elem_list = <<Root>> /\ result = Some(doc)

\* C9's case: one expression with no legs on an array.
C9_Witness ==
    /\ Called
    /\ ExprCount = 1
    /\ LegsOf(1) = <<>>
    /\ get_type(Root) = "Array"
    /\ get_elem_count(Root) > 0
    /\ result = Some(doc)

\* C10: an index at or past the element count of an array, and a literal key
\* an object does not have, match nothing and give no error, whatever legs
\* follow and whatever else of the document cannot be decoded; and extract
\* returns "no match" when it ends with no match and no error.
C10_MissNotError ==
    Called =>
        /\ \A rest \in CallLegs : \A j \in Places :
               /\ get_type(j) = "Array"
                      => \A i \in 0 .. MaxIndex + 1 :
                             i >= get_elem_count(j)
                                 => extract_json(j, <<Index(i)>> \o rest) = Ok(<<>>)
               /\ get_type(j) = "Object"
                      => \A key \in KeysTried \ {PATH_EXPR_ASTERISK} :
                             object_search_key(j, key) = {}
                                 => extract_json(j, <<Key(key)>> \o rest) = Ok(<<>>)
        /\ (result.kind # "Err" /\ elem_list = <<>>) => result = None

\* C10's case: an index past the end of an array whose element cannot be
\* decoded: no match, no error.
C10_Witness ==
    /\ Called
    /\ corrupt # {}
    /\ get_type(Root) = "Array"
    /\ ExprCount = 1
    /\ LegsOf(1) # <<>>
    /\ LegsOf(1)[1].kind = "Index"
    /\ LegsOf(1)[1].i >= get_elem_count(Root)
    /\ result = None

RECURSIVE Reads(_, _)
\* The places below j that matching legs from j reads through an accessor
\* (array_get_elem, object_get_val) when every read succeeds.
Reads(j, legs) ==
    IF legs = <<>> THEN {}
    ELSE LET leg == Head(legs)
             rest == Tail(legs)
             node == NodeAt(doc, j)
             children == {Append(j, k) : k \in 0 .. Len(node.elems) - 1}
             below(cs, ls) == cs \cup UNION {Reads(c, ls) : c \in cs}
         IN  CASE leg.kind = "Index" ->
                    IF node.type = "Array"
                    THEN IF leg.i = PATH_EXPR_ARRAY_INDEX_ASTERISK
                         THEN below(children, rest)
                         ELSE below({c \in children : c[Len(c)] = leg.i}, rest)
                    ELSE IF leg.i = 0 THEN Reads(j, rest) ELSE {}
               [] leg.kind = "Key" ->
                    IF node.type = "Object"
                    THEN IF leg.key = PATH_EXPR_ASTERISK
                         THEN below(children, rest)
                         ELSE below({c \in children : node.keys[c[Len(c)] + 1] = leg.key}, rest)
                    ELSE {}
               [] OTHER ->
                    Reads(j, rest)
                        \cup (IF node.type \in {"Array", "Object"}
                              THEN below(children, legs) ELSE {})

\* C11: extract returns the decode error exactly when the matching of one of
\* its expressions reads a place that cannot be decoded, at whatever depth;
\* it then returns no value and no match list, whatever the expressions
\* before it and the elements before that place have matched.
C11_DecodeErrorAborts ==
    Called =>
        LET failing == {n \in 1 .. ExprCount : Reads(Root, LegsOf(n)) \cap corrupt # {}}
        IN  /\ result = DecodeError <=> failing # {}
            /\ failing # {} => result.kind \notin {"Some", "None"} /\ elem_list = <<>>
            /\ \A n \in 1 .. ExprCount : \A j \in Places :
                   extract_json(j, LegsOf(n)).ok <=> Reads(j, LegsOf(n)) \cap corrupt = {}

\* C11's case: the first expression has matched, the second reads a place
\* below the first level that cannot be decoded, and the call returns the
\* error.
C11_Witness ==
    /\ Called
    /\ ExprCount = 2
    /\ extract_json(Root, LegsOf(1)).ok
    /\ extract_json(Root, LegsOf(1)).v # <<>>
    /\ ~extract_json(Root, LegsOf(2)).ok
    /\ \E p \in corrupt : Len(p) = 2
    /\ result = DecodeError

RECURSIVE PreOrder(_), PreOrderFrom(_, _)
\* The places of the subtree rooted at n: n first, then the subtrees of its
\* children in stored order.
PreOrder(n) == <<n>> \o PreOrderFrom(n, 0)
\* The subtrees of the children of n from slot k on.
PreOrderFrom(n, k) ==
    IF k >= Len(NodeAt(doc, n).elems) THEN <<>>
    ELSE PreOrder(Append(n, k)) \o PreOrderFrom(n, k + 1)

RECURSIVE MatchesAlong(_, _)
\* The matches of rest on each place of ds, one after the other.
MatchesAlong(ds, rest) ==
    IF ds = <<>> THEN <<>>
    ELSE extract_json(Head(ds), rest).v \o MatchesAlong(Tail(ds), rest)

\* refs without the later occurrences of a place.
FirstOccurrences(refs) ==
    LET kept == {p \in 1 .. Len(refs) : \A q \in 1 .. p - 1 : refs[q] # refs[p]}
        RECURSIVE Pick(_)
        Pick(p) == IF p > Len(refs) THEN <<>>
                   ELSE (IF p \in kept THEN <<refs[p]>> ELSE <<>>) \o Pick(p + 1)
    IN  Pick(1)

\* The leg lists that follow a ** leg in an expression of the call.
SuffixesAfterDoubleAsterisk ==
    UNION {{SubSeq(legs, m + 1, Len(legs)) :
                m \in {q \in 1 .. Len(legs) : legs[q].kind = "DoubleAsterisk"}} :
            legs \in CallLegs}

\* C14: for every node n of the document and every leg list rest that
\* follows a ** leg of the call, the matches of ** followed by rest on n are
\* the matches of rest on the nodes of the subtree of n taken in pre-order,
\* each place kept at its first occurrence.
C14_DoubleAsteriskPreOrder ==
    Called =>
        \A rest \in SuffixesAfterDoubleAsterisk : \A n \in Places :
            LET got == extract_json(n, <<DoubleAsterisk>> \o rest) IN
            /\ got.ok
            /\ got.v = FirstOccurrences(MatchesAlong(PreOrder(n), rest))

\* C14's case: ** is followed by a leg, the document has a node two levels
\* down that the leg matches on, and the concatenation along the pre-order
\* names a place twice.
C14_Witness ==
    /\ Called
    /\ result.kind = "Some"
    /\ \E rest \in SuffixesAfterDoubleAsterisk :
          /\ rest # <<>>
          /\ \E d \in Places : Len(d) >= 2 /\ extract_json(d, rest).v # <<>>
          /\ ~NoDuplicates(MatchesAlong(PreOrder(Root), rest))

\* The engines held on path.
EnginesOn(path) == {e \in engines : e.path = path}

\* The step is a call of open_tablet on path.
OpenTabletStep(path) == opens'[path] = opens[path] + 1
\* The step is a call of destroy_tablet on path.
DestroyTabletStep(path) ==
    /\ opens' = opens
    /\ engines' = engines
    /\ last_ret' = Returned("destroy_tablet", path, TRUE)

\* C12: for every tablet path, exists(path) is false as long as no
\* open_tablet was called on it, is true when open_tablet on it returns an
\* engine, and is false when destroy_tablet on it returns Ok after its
\* engine was dropped.
C12_TabletLifecycle ==
    /\ \A path \in Paths : ~exists(path)
    /\ [][\A path \in Paths :
              /\ opens'[path] = 0 => ~exists(path)'
              /\ (OpenTabletStep(path) /\ last_ret'.ok) => exists(path)'
              /\ (EnginesOn(path) = {} /\ DestroyTabletStep(path)) => ~exists(path)']_vars

\* C13: a step that calls open_tablet on a path whose engine is held returns
\* an error and hands out no engine, so no path ever has two held engines.
C13_OneEnginePerPath ==
    [][/\ \A path \in Paths :
              (EnginesOn(path) # {} /\ OpenTabletStep(path))
                  => /\ last_ret' = Returned("open_tablet", path, FALSE)
                     /\ engines' = engines
       /\ \A path \in Paths : Cardinality(EnginesOn(path)') <= 1]_vars

\* C13's case: the engine of the first open_tablet on a path is still held
\* after a second open_tablet on that path, which failed, and the directory
\* has been destroyed in between or not.
C13_Witness ==
    \E path \in Paths :
        /\ opens[path] = 2
        /\ \E e \in engines : e.path = path /\ e.serial = 1
        /\ last_ret = Returned("open_tablet", path, FALSE)

====
